---- MODULE Spec2Model ----
(***************************************************************************)
(* A model of the hpcgame CLI (src/main.go): the partition catalog cache   *)
(* kept in ~/.hpcgame (getPartitions), the persistent-volume commands      *)
(* (createVolume, deleteVolume, listVolumes, ensurePartitionDefaultVolume) *)
(* and the container commands (create, run, delete) that drive kubectl.    *)
(*                                                                         *)
(* One action is one invocation of the CLI.  The cache files, the clock    *)
(* and the cluster are the state that survives between invocations; the    *)
(* outcome of every external step (HTTP fetch, file write, kubectl call,   *)
(* prompt answer) is chosen by the environment with \E.  SpecProvision     *)
(* calls ensurePartitionDefaultVolume and deployContainer on their own,    *)
(* with arguments that create and run would not all let through.           *)
(*                                                                         *)
(* File contents are TLA+ strings (names, the timestamp file) or sequences *)
(* of JSON tokens (the catalog payload).  The cache directory is taken to  *)
(* be usable: os.UserHomeDir and os.MkdirAll succeed, and a file that is   *)
(* present can be read; writes to the cache files may fail.  Temporary     *)
(* manifest files can always be written, and 'hpcgame install' has left a  *)
(* kubeconfig, so that getKubeConfig succeeds.                             *)
(***************************************************************************)
EXTENDS Integers, Sequences, FiniteSets, TLC

VARIABLES
    now,          \* time.Now().Unix()
    tsFile,       \* ~/.hpcgame/partition_last_update
    payloadFile,  \* ~/.hpcgame/partitions.json
    pvcs,         \* names of the PersistentVolumeClaims in the namespace
    pods,         \* names of the pods in the namespace
    calls,        \* the kubectl invocations of the last CLI invocation, in order
    last,         \* what the last CLI invocation was given, saw and returned
    procs         \* where each of the invocations that run side by side stands

vars == <<now, tsFile, payloadFile, pvcs, pods, calls, last, procs>>

-----------------------------------------------------------------------------
(* Bounds of the model *)

\* Epoch seconds at the first invocation; like any real clock, past one TTL.
StartTime == 100000
\* How many times the clock advances.
MaxTicks == 2
\* How many invocations run side by side.
NumProcs == 2

Procs == 1..NumProcs

-----------------------------------------------------------------------------
(* Strings *)

\* strings.Contains(s, sub)
Contains(s, sub) ==
    \E i \in 1..(Len(s) - Len(sub) + 1) : SubSeq(s, i, i + Len(sub) - 1) = sub

\* strings.ReplaceAll(s, old, new) for a one-character old
RECURSIVE ReplaceAll(_, _, _)
ReplaceAll(s, old, new) ==
    IF s = "" THEN ""
    ELSE (IF SubSeq(s, 1, 1) = old THEN new ELSE SubSeq(s, 1, 1))
         \o ReplaceAll(SubSeq(s, 2, Len(s)), old, new)

DigitChars == "0123456789"

IsDigit(c) == \E d \in 0..9 : SubSeq(DigitChars, d + 1, d + 1) = c

DigitVal(c) == CHOOSE d \in 0..9 : SubSeq(DigitChars, d + 1, d + 1) = c

\* strconv.Itoa(n)
RECURSIVE Itoa(_)
Itoa(n) ==
    IF n < 0 THEN "-" \o Itoa(0 - n)
    ELSE IF n < 10 THEN SubSeq(DigitChars, n + 1, n + 1)
    ELSE Itoa(n \div 10) \o SubSeq(DigitChars, (n % 10) + 1, (n % 10) + 1)

RECURSIVE DigitsValue(_, _)
DigitsValue(s, acc) ==
    IF s = "" THEN acc
    ELSE DigitsValue(SubSeq(s, 2, Len(s)), acc * 10 + DigitVal(SubSeq(s, 1, 1)))

\* strconv.Atoi(s): an optional sign, then one or more decimal digits and
\* nothing else.  (The values of the model stay far inside the int range.)
Atoi(s) ==
    LET signed == Len(s) > 0 /\ SubSeq(s, 1, 1) \in {"+", "-"}
        digits == IF signed THEN SubSeq(s, 2, Len(s)) ELSE s
        ok     == /\ Len(digits) > 0
                  /\ \A i \in 1..Len(digits) : IsDigit(SubSeq(digits, i, i))
        v      == IF ok THEN DigitsValue(digits, 0) ELSE 0
    IN  [ok  |-> ok,
         val |-> IF signed /\ SubSeq(s, 1, 1) = "-" THEN 0 - v ELSE v]

-----------------------------------------------------------------------------
(* Files *)

NoFile(empty) == [exists |-> FALSE, data |-> empty]
File(d)       == [exists |-> TRUE, data |-> d]

-----------------------------------------------------------------------------
(* The partition catalog and its JSON payload *)

\* type Partition (Description plays no part in any decision and is left out)
PartX86 == [Name |-> "x86", GPUTag |-> "", GPUName |-> "",
            Images |-> <<"ubuntu">>, CPULimit |-> 2, MemoryLimit |-> 3]
PartGpu == [Name |-> "gpu_a", GPUTag |-> "nvidia.com/gpu", GPUName |-> "A100",
            Images |-> <<>>, CPULimit |-> 1, MemoryLimit |-> 4]
\* {"Name": "bare", "GPUTag": "nvidia.com/gpu"} as json.Unmarshal decodes it:
\* a field the object leaves out keeps its zero value.
PartBare == [Name |-> "bare", GPUTag |-> "nvidia.com/gpu", GPUName |-> "",
             Images |-> <<>>, CPULimit |-> 0, MemoryLimit |-> 0]

\* JSON tokens: the brackets and commas of an array, its objects, and text
\* that is no JSON at all.
Tok(t, p) == [t |-> t, p |-> p]
LBrack    == Tok("[", PartX86)
RBrack    == Tok("]", PartX86)
Comma     == Tok(",", PartX86)
Junk      == Tok("junk", PartX86)
Obj(p)    == Tok("obj", p)

\* json.Marshal of a partition list, as the remote authority serves it
RECURSIVE EncodeItems(_)
EncodeItems(ps) ==
    IF Len(ps) = 0 THEN <<>>
    ELSE IF Len(ps) = 1 THEN <<Obj(ps[1])>>
    ELSE <<Obj(ps[1]), Comma>> \o EncodeItems(Tail(ps))

Encode(ps) == <<LBrack>> \o EncodeItems(ps) \o <<RBrack>>

\* The elements of a token sequence that is a well-formed array body
\* (obj (, obj)*), or failure.
RECURSIVE DecodeItems(_)
DecodeItems(toks) ==
    IF Len(toks) = 0 THEN [ok |-> FALSE, list |-> <<>>]
    ELSE IF toks[1].t # "obj" THEN [ok |-> FALSE, list |-> <<>>]
    ELSE IF Len(toks) = 1 THEN [ok |-> TRUE, list |-> <<toks[1].p>>]
    ELSE IF toks[2].t # "," THEN [ok |-> FALSE, list |-> <<>>]
    ELSE LET rest == DecodeItems(SubSeq(toks, 3, Len(toks)))
         IN  [ok |-> rest.ok,
              list |-> IF rest.ok THEN <<toks[1].p>> \o rest.list ELSE <<>>]

\* json.Unmarshal(data, &partitions): an error unless data is one complete
\* JSON array of partition objects.
Unmarshal(data) ==
    IF Len(data) < 2 \/ data[1].t # "[" \/ data[Len(data)].t # "]"
    THEN [ok |-> FALSE, list |-> <<>>]
    ELSE IF Len(data) = 2 THEN [ok |-> TRUE, list |-> <<>>]
    ELSE DecodeItems(SubSeq(data, 2, Len(data) - 1))

\* The bodies the remote authority may answer with, whatever the status.
Bodies == {Encode(<<PartX86, PartGpu>>), Encode(<<PartX86>>), Encode(<<PartBare>>), <<Junk>>}

\* The outcomes of http.Get and of copying the body into the file: a
\* transport error, a status other than 200, or status 200 with the body
\* copied whole ("ok") or up to its first n tokens ("copyerr").
FetchOutcomes ==
    {[kind |-> "transport", body |-> <<>>, n |-> 0]}
    \cup {[kind |-> "status", body |-> b, n |-> Len(b)] : b \in Bodies}
    \cup {[kind |-> "ok", body |-> b, n |-> Len(b)] : b \in Bodies}
    \cup UNION {{[kind |-> "copyerr", body |-> b, n |-> k] : k \in 0..(Len(b) - 1)}
                : b \in Bodies}

\* The environment of one getPartitions call.  A step that is never reached
\* (a file write after a failed fetch) is given its success value only, so
\* that no two environments stand for the same run.
LoadEnvs ==
    {e \in [initOk   : BOOLEAN,                         \* os.WriteFile(lastUpdateFile, "0")
            fetch    : FetchOutcomes,                   \* http.Get and io.Copy
            createOk : BOOLEAN,                         \* os.Create(partitionFile)
            tsWrite  : {"ok", "openfail", "writefail"}] \* os.WriteFile(lastUpdateFile, now)
        : /\ e.fetch.kind \in {"transport", "status"} => e.createOk
          /\ ~e.createOk => e.fetch.kind = "ok" /\ e.fetch.body = <<Junk>>
          /\ e.tsWrite # "ok" => e.fetch.kind = "ok" /\ e.createOk}

\* The environment in which nothing fails.
CalmEnv ==
    [initOk |-> TRUE, fetch |-> [kind |-> "ok", body |-> <<Junk>>, n |-> 1],
     createOk |-> TRUE, tsWrite |-> "ok"]

-----------------------------------------------------------------------------
(* getPartitions *)

\* The refresh interval in seconds
TTL == 86400

\* needsUpdate with the comparison of the age turned round
NeedsUpdateInverted(ts, t) ==
    ~ (/\ ts.exists
       /\ Atoi(ts.data).ok
       /\ Atoi(ts.data).val + TTL < t)

\* needsUpdate starting out false and set only by a timestamp found stale
NeedsUpdateDefaultFalse(ts, t) ==
    /\ ts.exists
    /\ Atoi(ts.data).ok
    /\ Atoi(ts.data).val + TTL <= t

\* needsUpdate: false only if the timestamp file reads, parses, and is
\* less than one TTL old.
NeedsUpdate(ts, t) ==
    ~ (/\ ts.exists
       /\ Atoi(ts.data).ok
       /\ Atoi(ts.data).val + TTL > t)

Nil       == [nil |-> TRUE, list |-> <<>>]
Some(ps)  == [nil |-> FALSE, list |-> ps]

\* Read partitions from file
ReadPartitions(pf) ==
    IF ~pf.exists THEN Nil
    ELSE IF ~Unmarshal(pf.data).ok THEN Nil
    ELSE Some(Unmarshal(pf.data).list)

\* getPartitions without the check of the response status
GetPartitionsAnyStatus(ts, pf, t, e) ==
    LET ts0 == IF ~ts.exists /\ e.initOk THEN File("0") ELSE ts
        out(ts1, pf1, refresh, res) ==
            [ts |-> ts1, pf |-> pf1, refresh |-> refresh, result |-> res]
        pf1 == File(SubSeq(e.fetch.body, 1, e.fetch.n))
    IN  IF ~NeedsUpdate(ts0, t) THEN out(ts0, pf, "none", ReadPartitions(pf))
        ELSE IF e.fetch.kind = "transport" THEN out(ts0, pf, "transport", Nil)
        ELSE IF e.fetch.kind = "status"
             THEN out(File(Itoa(t)), pf1, "status", ReadPartitions(pf1))
        ELSE IF ~e.createOk THEN out(ts0, pf, "create", Nil)
        ELSE IF e.fetch.kind = "copyerr" THEN out(ts0, pf1, "copy", Nil)
        ELSE IF e.tsWrite = "openfail" THEN out(ts0, pf1, "tsopen", Nil)
        ELSE IF e.tsWrite = "writefail" THEN out(File(""), pf1, "tswrite", Nil)
        ELSE out(File(Itoa(t)), pf1, "ok", ReadPartitions(pf1))

\* One call of getPartitions on files ts and pf at time t in environment e:
\* the files it leaves, how the refresh went ("none" when none was due,
\* "ok", or the step that failed), and what it returns.
GetPartitions(ts, pf, t, e) ==
    LET ts0 == IF ~ts.exists /\ e.initOk THEN File("0") ELSE ts
        out(ts1, pf1, refresh, res) ==
            [ts |-> ts1, pf |-> pf1, refresh |-> refresh, result |-> res]
    IN  IF ~NeedsUpdate(ts0, t) THEN out(ts0, pf, "none", ReadPartitions(pf))
        ELSE IF e.fetch.kind = "transport" THEN out(ts0, pf, "transport", Nil)
        ELSE IF e.fetch.kind = "status" THEN out(ts0, pf, "status", Nil)
        ELSE IF ~e.createOk THEN out(ts0, pf, "create", Nil)
        ELSE LET pf1 == File(SubSeq(e.fetch.body, 1, e.fetch.n))
             IN  IF e.fetch.kind = "copyerr" THEN out(ts0, pf1, "copy", Nil)
                 ELSE IF e.tsWrite = "openfail" THEN out(ts0, pf1, "tsopen", Nil)
                 ELSE IF e.tsWrite = "writefail" THEN out(File(""), pf1, "tswrite", Nil)
                 ELSE out(File(Itoa(t)), pf1, "ok", ReadPartitions(pf1))

\* The environments that make a difference to a call on timestamp file ts
\* at time t: the first write when the file is absent, the rest when a
\* refresh is due.
LoadEnvsAt(ts, t) ==
    {e \in LoadEnvs :
        /\ ts.exists => e.initOk
        /\ ~NeedsUpdate(IF ~ts.exists /\ e.initOk THEN File("0") ELSE ts, t)
              => e = [CalmEnv EXCEPT !.initOk = e.initOk]}


-----------------------------------------------------------------------------
(* kubectl and the cluster *)

\* One kubectl invocation: the verb, the kind and name of its target, and
\* the manifest it applies.
Call(verb, kind, name, doc) == [verb |-> verb, kind |-> kind, name |-> name, doc |-> doc]
NoDoc == [kind |-> "none"]

\* What a step leaves: the calls it issued, the claims and pods of the
\* namespace, and its error ("" for nil).
Outcome(cs, cl, pd, err) == [calls |-> cs, pvcs |-> cl, pods |-> pd, err |-> err]

\* The name format reserved for the partitions' default volumes
Marker == "-default-pvc"

\* The PersistentVolumeClaim manifest of createVolume and
\* ensurePartitionDefaultVolume
PvcDoc(name, storageClass, accessMode, size) ==
    [kind |-> "PersistentVolumeClaim", name |-> name, storageClassName |-> storageClass,
     accessModes |-> <<accessMode>>, storage |-> size]

\* strings.HasSuffix(s, suffix)
HasSuffix(s, suffix) ==
    Len(s) >= Len(suffix) /\ SubSeq(s, Len(s) - Len(suffix) + 1, Len(s)) = suffix

\* createVolume refusing only the names that end in the reserved format
createVolumeBySuffix(cl, pd, name, size, storageClass, accessMode, applyOk) ==
    IF HasSuffix(name, Marker) THEN Outcome(<<>>, cl, pd, "reserved")
    ELSE LET c == Call("apply", "pvc", name, PvcDoc(name, storageClass, accessMode, size))
         IN  IF applyOk THEN Outcome(<<c>>, cl \cup {name}, pd, "")
             ELSE Outcome(<<c>>, cl, pd, "apply")

\* createVolume applying a second time when 'kubectl apply' fails
createVolumeRetry(cl, pd, name, size, storageClass, accessMode, applyOk) ==
    IF Contains(name, Marker) THEN Outcome(<<>>, cl, pd, "reserved")
    ELSE LET c == Call("apply", "pvc", name, PvcDoc(name, storageClass, accessMode, size))
         IN  IF applyOk THEN Outcome(<<c>>, cl \cup {name}, pd, "")
             ELSE Outcome(<<c, c>>, cl, pd, "apply")

\* createVolume: applyOk is the outcome of 'kubectl apply'
createVolume(cl, pd, name, size, storageClass, accessMode, applyOk) ==
    IF Contains(name, Marker) THEN Outcome(<<>>, cl, pd, "reserved")
    ELSE LET c == Call("apply", "pvc", name, PvcDoc(name, storageClass, accessMode, size))
         IN  IF applyOk THEN Outcome(<<c>>, cl \cup {name}, pd, "")
             ELSE Outcome(<<c>>, cl, pd, "apply")

\* deleteVolume refusing only the claims that exist
deleteVolumeIfPresent(cl, pd, name, deleteOk) ==
    IF Contains(name, Marker) /\ name \in cl THEN Outcome(<<>>, cl, pd, "reserved")
    ELSE LET c == Call("delete", "pvc", name, NoDoc)
         IN  IF deleteOk /\ name \in cl THEN Outcome(<<c>>, cl \ {name}, pd, "")
             ELSE Outcome(<<c>>, cl, pd, "delete")

\* deleteVolume without the check of the name
deleteVolumeUnchecked(cl, pd, name, deleteOk) ==
    LET c == Call("delete", "pvc", name, NoDoc)
    IN  IF deleteOk /\ name \in cl THEN Outcome(<<c>>, cl \ {name}, pd, "")
        ELSE Outcome(<<c>>, cl, pd, "delete")

\* deleteVolume: 'kubectl delete pvc' succeeds if the claim is there and
\* the cluster answers (deleteOk)
deleteVolume(cl, pd, name, deleteOk) ==
    IF Contains(name, Marker) THEN Outcome(<<>>, cl, pd, "reserved")
    ELSE LET c == Call("delete", "pvc", name, NoDoc)
         IN  IF deleteOk /\ name \in cl THEN Outcome(<<c>>, cl \ {name}, pd, "")
             ELSE Outcome(<<c>>, cl, pd, "delete")

\* listVolumes: one query; every claim is listed with its IsDefault note
listVolumes(cl, pd, getOk) ==
    Outcome(<<Call("get", "pvc", "", NoDoc)>>, cl, pd, IF getOk THEN "" ELSE "get")

IsDefault(name) == Contains(name, Marker)

\* The names with the partition name taken as it is
DefaultVolumeNameRaw(partition) == partition \o "-default-pvc"
DefaultStorageClassRaw(partition) == partition \o "-default-sc"

\* The default volume and storage class of a partition
DefaultVolumeName(partition) == ReplaceAll(partition, "_", "-") \o "-default-pvc"
DefaultStorageClass(partition) == ReplaceAll(partition, "_", "-") \o "-default-sc"

\* ensurePartitionDefaultVolume applying the claim whatever the query says
ensureWithoutQueryResult(cl, pd, partition, k) ==
    LET name == DefaultVolumeName(partition)
        get  == Call("get", "pvc", name, NoDoc)
        doc  == PvcDoc(name, DefaultStorageClass(partition), "ReadWriteMany", "200Gi")
        app  == Call("apply", "pvc", name, doc)
    IN  IF k.applyOk THEN Outcome(<<get, app>>, cl \cup {name}, pd, "")
        ELSE Outcome(<<get, app>>, cl, pd, "apply")

\* ensurePartitionDefaultVolume: the query succeeds if the claim is there
\* and the cluster answers (k.getOk); otherwise the claim is applied.
ensurePartitionDefaultVolume(cl, pd, partition, k) ==
    LET name == DefaultVolumeName(partition)
        get  == Call("get", "pvc", name, NoDoc)
        doc  == PvcDoc(name, DefaultStorageClass(partition), "ReadWriteMany", "200Gi")
        app  == Call("apply", "pvc", name, doc)
    IN  IF k.getOk /\ name \in cl THEN Outcome(<<get>>, cl, pd, "")
        ELSE IF k.applyOk THEN Outcome(<<get, app>>, cl \cup {name}, pd, "")
        ELSE Outcome(<<get, app>>, cl, pd, "apply")

\* The mounts of the extra volumes named after the volumes
RECURSIVE ExtraMountsByName(_, _)
ExtraMountsByName(extraVolumes, i) ==
    IF i > Len(extraVolumes) THEN <<>>
    ELSE <<[name |-> "extra-volume-" \o extraVolumes[i],
            mountPath |-> "/mnt/" \o extraVolumes[i]]>>
         \o ExtraMountsByName(extraVolumes, i + 1)

\* The volumeMounts and the volumes entries of the extra volumes, from
\* index i on
RECURSIVE ExtraMounts(_, _)
ExtraMounts(extraVolumes, i) ==
    IF i > Len(extraVolumes) THEN <<>>
    ELSE <<[name |-> "extra-volume-" \o Itoa(i - 1),
            mountPath |-> "/mnt/" \o extraVolumes[i]]>>
         \o ExtraMounts(extraVolumes, i + 1)

RECURSIVE ExtraVolumes(_, _)
ExtraVolumes(extraVolumes, i) ==
    IF i > Len(extraVolumes) THEN <<>>
    ELSE <<[name |-> "extra-volume-" \o Itoa(i - 1),
            claimName |-> extraVolumes[i]]>>
         \o ExtraVolumes(extraVolumes, i + 1)

\* The pod manifest with the CPU count in cores and limits only
PodDocCores(partition, name, cpu, memory, gpu, image, extraVolumes) ==
    LET gpulimit == IF gpu > 0 THEN partition.GPUTag \o ": " \o Itoa(gpu) ELSE ""
    IN  [kind |-> "Pod", name |-> name, nodeSelector |-> partition.Name, image |-> image,
         workingDir |-> "/partition-data",
         requests |-> [cpu |-> Itoa(cpu) \o "m", memory |-> Itoa(memory) \o "Gi",
                       gpu |-> gpulimit],
         limits |-> [cpu |-> Itoa(cpu * 1000) \o "m", memory |-> Itoa(memory) \o "Gi",
                     gpu |-> gpulimit],
         volumeMounts |-> <<[name |-> "default-data-volume",
                             mountPath |-> "/partition-data"]>>
                          \o ExtraMounts(extraVolumes, 1),
         volumes |-> <<[name |-> "default-data-volume",
                        claimName |-> DefaultVolumeName(partition.Name)]>>
                     \o ExtraVolumes(extraVolumes, 1)]

\* The pod manifest with the GPU entry among the limits only
PodDocGpuLimitOnly(partition, name, cpu, memory, gpu, image, extraVolumes) ==
    LET gpulimit == IF gpu > 0 THEN partition.GPUTag \o ": " \o Itoa(gpu) ELSE ""
        res      == [cpu |-> Itoa(cpu * 1000) \o "m", memory |-> Itoa(memory) \o "Gi",
                     gpu |-> gpulimit]
    IN  [kind |-> "Pod", name |-> name, nodeSelector |-> partition.Name, image |-> image,
         workingDir |-> "/partition-data",
         requests |-> [res EXCEPT !.gpu = ""], limits |-> res,
         volumeMounts |-> <<[name |-> "default-data-volume",
                             mountPath |-> "/partition-data"]>>
                          \o ExtraMounts(extraVolumes, 1),
         volumes |-> <<[name |-> "default-data-volume",
                        claimName |-> DefaultVolumeName(partition.Name)]>>
                     \o ExtraVolumes(extraVolumes, 1)]

\* The pod manifest of deployContainer
PodDoc(partition, name, cpu, memory, gpu, image, extraVolumes) ==
    LET gpulimit == IF gpu > 0 THEN partition.GPUTag \o ": " \o Itoa(gpu) ELSE ""
        res      == [cpu |-> Itoa(cpu * 1000) \o "m", memory |-> Itoa(memory) \o "Gi",
                     gpu |-> gpulimit]
    IN  [kind |-> "Pod", name |-> name, nodeSelector |-> partition.Name, image |-> image,
         workingDir |-> "/partition-data", requests |-> res, limits |-> res,
         volumeMounts |-> <<[name |-> "default-data-volume",
                             mountPath |-> "/partition-data"]>>
                          \o ExtraMounts(extraVolumes, 1),
         volumes |-> <<[name |-> "default-data-volume",
                        claimName |-> DefaultVolumeName(partition.Name)]>>
                     \o ExtraVolumes(extraVolumes, 1)]

\* deployContainer returning the error of ensurePartitionDefaultVolume
deployContainerStrict(cl, pd, partition, name, cpu, memory, gpu, image, extraVolumes, k) ==
    LET ens == ensurePartitionDefaultVolume(cl, pd, partition.Name, k)
        app == Call("apply", "pod", name,
                    PodDoc(partition, name, cpu, memory, gpu, image, extraVolumes))
    IN  IF ens.err # "" THEN Outcome(ens.calls, ens.pvcs, pd, "ensure")
        ELSE IF k.podOk THEN Outcome(ens.calls \o <<app>>, ens.pvcs, pd \cup {name}, "")
        ELSE Outcome(ens.calls \o <<app>>, ens.pvcs, pd, "deploy")

\* deployContainer submitting the pod before it ensures the default volume
deployContainerPodFirst(cl, pd, partition, name, cpu, memory, gpu, image, extraVolumes, k) ==
    LET ens == ensurePartitionDefaultVolume(cl, pd, partition.Name, k)
        app == Call("apply", "pod", name,
                    PodDoc(partition, name, cpu, memory, gpu, image, extraVolumes))
    IN  IF k.podOk THEN Outcome(<<app>> \o ens.calls, ens.pvcs, pd \cup {name}, "")
        ELSE Outcome(<<app>> \o ens.calls, ens.pvcs, pd, "deploy")

\* deployContainer: k.podOk is the outcome of 'kubectl apply' of the pod.
\* A failure to ensure the default volume is a warning only.
deployContainer(cl, pd, partition, name, cpu, memory, gpu, image, extraVolumes, k) ==
    LET ens == ensurePartitionDefaultVolume(cl, pd, partition.Name, k)
        app == Call("apply", "pod", name,
                    PodDoc(partition, name, cpu, memory, gpu, image, extraVolumes))
    IN  IF k.podOk THEN Outcome(ens.calls \o <<app>>, ens.pvcs, pd \cup {name}, "")
        ELSE Outcome(ens.calls \o <<app>>, ens.pvcs, pd, "deploy")

\* The environment of one deployContainer call for a partition: whether
\* the cluster answers the query, accepts the claim and accepts the pod.
\* (No claim is applied after a query that found it.)
DeployEnvs(cl, partition) ==
    {k \in [getOk : BOOLEAN, applyOk : BOOLEAN, podOk : BOOLEAN] :
        k.getOk /\ DefaultVolumeName(partition) \in cl => k.applyOk}

-----------------------------------------------------------------------------
(* More strings *)

RECURSIVE SplitFrom(_, _, _)
SplitFrom(s, sep, cur) ==
    IF s = "" THEN <<cur>>
    ELSE IF SubSeq(s, 1, 1) = sep THEN <<cur>> \o SplitFrom(SubSeq(s, 2, Len(s)), sep, "")
    ELSE SplitFrom(SubSeq(s, 2, Len(s)), sep, cur \o SubSeq(s, 1, 1))

\* strings.Split(s, sep) for a one-character sep
Split(s, sep) == SplitFrom(s, sep, "")

IsSpace(c) == c \in {" ", "\t", "\n", "\r"}

\* strings.TrimSpace(s)
RECURSIVE TrimLeft(_)
TrimLeft(s) ==
    IF s # "" /\ IsSpace(SubSeq(s, 1, 1)) THEN TrimLeft(SubSeq(s, 2, Len(s))) ELSE s

RECURSIVE TrimRight(_)
TrimRight(s) ==
    IF s # "" /\ IsSpace(SubSeq(s, Len(s), Len(s)))
    THEN TrimRight(SubSeq(s, 1, Len(s) - 1)) ELSE s

TrimSpace(s) == TrimRight(TrimLeft(s))

UpperChars == "ABCDEFGHIJKLMNOPQRSTUVWXYZ"
LowerChars == "abcdefghijklmnopqrstuvwxyz"

LowerChar(c) ==
    IF \E i \in 1..26 : SubSeq(UpperChars, i, i) = c
    THEN LET i == CHOOSE j \in 1..26 : SubSeq(UpperChars, j, j) = c
         IN  SubSeq(LowerChars, i, i)
    ELSE c

\* strings.ToLower(s)
RECURSIVE ToLower(_)
ToLower(s) ==
    IF s = "" THEN "" ELSE LowerChar(SubSeq(s, 1, 1)) \o ToLower(SubSeq(s, 2, Len(s)))

RECURSIVE TrimAll(_)
TrimAll(ss) == IF Len(ss) = 0 THEN <<>> ELSE <<TrimSpace(ss[1])>> \o TrimAll(Tail(ss))

-----------------------------------------------------------------------------
(* create and run *)

\* A line read from standard input by bufio.Scanner, or none (end of input)
Line(text) == [read |-> TRUE, text |-> text]
EOF        == [read |-> FALSE, text |-> ""]

\* The first partition of the list with the given name
RECURSIVE FindPartition(_, _)
FindPartition(partitions, name) ==
    IF Len(partitions) = 0 THEN [found |-> FALSE, p |-> PartX86]
    ELSE IF partitions[1].Name = name THEN [found |-> TRUE, p |-> partitions[1]]
    ELSE FindPartition(Tail(partitions), name)

\* The checks without the upper bound of the memory size
ValidateNoMemoryLimit(op, partitions, req, in) ==
    LET rejected(why) ==
            [why |-> why, partition |-> PartX86, cpu |-> 0, memory |-> 0, gpu |-> 0,
             image |-> ""]
        partition == IF req.partition = "" THEN in.partition.text ELSE req.partition
        f         == FindPartition(partitions, partition)
        askCpu    == op = "create" /\ req.cpu = 0
        cpu       == IF askCpu THEN Atoi(in.cpu.text).val ELSE req.cpu
        memory    == IF req.memory = 0 THEN cpu * 2 ELSE req.memory
        askImage  == req.image = "" /\ Len(f.p.Images) = 0
        image     == IF req.image # "" THEN req.image
                     ELSE IF Len(f.p.Images) > 0 THEN f.p.Images[1]
                     ELSE in.image.text
    IN  IF req.partition = "" /\ ~in.partition.read THEN rejected("input")
        ELSE IF ~f.found THEN rejected("partition")
        ELSE IF askCpu /\ ~in.cpu.read THEN rejected("input")
        ELSE IF askCpu /\ ~Atoi(in.cpu.text).ok THEN rejected("cpu")
        ELSE IF cpu <= 0 \/ cpu > f.p.CPULimit THEN rejected("cpu")
        ELSE IF memory <= 0 THEN rejected("memory")
        ELSE IF askImage /\ ~in.image.read THEN rejected("input")
        ELSE [why |-> "", partition |-> f.p, cpu |-> cpu, memory |-> memory,
              gpu |-> req.gpu, image |-> image]

\* The checks with the memory size checked only if it is given
ValidateDefaultUnchecked(op, partitions, req, in) ==
    LET rejected(why) ==
            [why |-> why, partition |-> PartX86, cpu |-> 0, memory |-> 0, gpu |-> 0,
             image |-> ""]
        partition == IF req.partition = "" THEN in.partition.text ELSE req.partition
        f         == FindPartition(partitions, partition)
        askCpu    == op = "create" /\ req.cpu = 0
        cpu       == IF askCpu THEN Atoi(in.cpu.text).val ELSE req.cpu
        memory    == IF req.memory = 0 THEN cpu * 2 ELSE req.memory
        askImage  == req.image = "" /\ Len(f.p.Images) = 0
        image     == IF req.image # "" THEN req.image
                     ELSE IF Len(f.p.Images) > 0 THEN f.p.Images[1]
                     ELSE in.image.text
    IN  IF req.partition = "" /\ ~in.partition.read THEN rejected("input")
        ELSE IF ~f.found THEN rejected("partition")
        ELSE IF askCpu /\ ~in.cpu.read THEN rejected("input")
        ELSE IF askCpu /\ ~Atoi(in.cpu.text).ok THEN rejected("cpu")
        ELSE IF cpu <= 0 \/ cpu > f.p.CPULimit THEN rejected("cpu")
        ELSE IF req.memory # 0 /\ (memory <= 0 \/ memory > f.p.MemoryLimit)
             THEN rejected("memory")
        ELSE IF askImage /\ ~in.image.read THEN rejected("input")
        ELSE [why |-> "", partition |-> f.p, cpu |-> cpu, memory |-> memory,
              gpu |-> req.gpu, image |-> image]

\* The checks of createContainer and runContainer between the catalog load
\* and the volume checks: the partition, the CPU count, the memory size and
\* the image, with the prompts of `in` answering what the flags leave out.
\* why is "" if the request passes.
Validate(op, partitions, req, in) ==
    LET rejected(why) ==
            [why |-> why, partition |-> PartX86, cpu |-> 0, memory |-> 0, gpu |-> 0,
             image |-> ""]
        partition == IF req.partition = "" THEN in.partition.text ELSE req.partition
        f         == FindPartition(partitions, partition)
        askCpu    == op = "create" /\ req.cpu = 0
        cpu       == IF askCpu THEN Atoi(in.cpu.text).val ELSE req.cpu
        memory    == IF req.memory = 0 THEN cpu * 2 ELSE req.memory
        askImage  == req.image = "" /\ Len(f.p.Images) = 0
        image     == IF req.image # "" THEN req.image
                     ELSE IF Len(f.p.Images) > 0 THEN f.p.Images[1]
                     ELSE in.image.text
    IN  IF req.partition = "" /\ ~in.partition.read THEN rejected("input")
        ELSE IF ~f.found THEN rejected("partition")
        ELSE IF askCpu /\ ~in.cpu.read THEN rejected("input")
        ELSE IF askCpu /\ ~Atoi(in.cpu.text).ok THEN rejected("cpu")
        ELSE IF cpu <= 0 \/ cpu > f.p.CPULimit THEN rejected("cpu")
        ELSE IF memory <= 0 \/ memory > f.p.MemoryLimit THEN rejected("memory")
        ELSE IF askImage /\ ~in.image.read THEN rejected("input")
        ELSE [why |-> "", partition |-> f.p, cpu |-> cpu, memory |-> memory,
              gpu |-> req.gpu, image |-> image]

\* The extra volumes of a -v flag
ExtraVolumeNames(flag) == IF flag = "" THEN <<>> ELSE TrimAll(Split(flag, ","))

\* The volume checks: one 'kubectl get pvc' per extra volume from index i
\* on; when it fails the user is asked whether to continue, and only an
\* answer that is read and is neither y nor yes cancels.
RECURSIVE CheckVolumes(_, _, _, _)
CheckVolumes(vols, i, cl, k) ==
    IF i > Len(vols) THEN [calls |-> <<>>, cancelled |-> FALSE]
    ELSE LET get  == Call("get", "pvc", vols[i], NoDoc)
             err  == ~(k.volGetOk /\ vols[i] \in cl)
             ans  == k.answers[i]
             stop == err /\ ans.read /\ ToLower(ans.text) \notin {"y", "yes"}
             rest == CheckVolumes(vols, i + 1, cl, k)
         IN  IF stop THEN [calls |-> <<get>>, cancelled |-> TRUE]
             ELSE [calls |-> <<get>> \o rest.calls, cancelled |-> rest.cancelled]

-----------------------------------------------------------------------------
(* The inputs of the commands *)

\* The flags of a create or run command: -p, -c, -m, -g, -i (or the image
\* argument of run), -v and -n; "" and 0 are the values of a flag not given.
Request(partition, cpu, memory, gpu, image, volumes) ==
    [partition |-> partition, cpu |-> cpu, memory |-> memory, gpu |-> gpu,
     image |-> image, volumes |-> volumes, name |-> "c1"]

Requests ==
    {Request("x86", 1, 0, 0, "", ""),              \* memory and image by default
     Request("x86", 2, 0, 0, "", ""),              \* default memory over the limit
     Request("x86", 2, 3, 1, "pytorch", " data,tmp"), \* a GPU where there is none
     Request("gpu_a", 1, 4, 1, "", "data"),        \* the image is asked for
     Request("gpu_a", 0, 0, 0, "pytorch", ""),     \* create asks for the CPU count
     Request("", 1, 3, 0, "", ""),                 \* the partition is asked for
     Request("x86", 3, 0, 0, "", ""),              \* CPU count over the limit
     Request("x86", 1, 5, 0, "", ""),              \* memory over the limit
     Request("arm", 1, 3, 0, "", "")}              \* no such partition

-----------------------------------------------------------------------------
(* The command line of run *)

\* strings.HasPrefix(s, prefix)
HasPrefix(s, prefix) == Len(s) >= Len(prefix) /\ SubSeq(s, 1, Len(prefix)) = prefix

\* The position of the first "=" of s after its first character, or 0
\* (the loop over name[1:] of flag.FlagSet.parseOne)
RECURSIVE EqualsFrom(_, _)
EqualsFrom(s, i) ==
    IF i > Len(s) THEN 0
    ELSE IF SubSeq(s, i, i) = "=" THEN i
    ELSE EqualsFrom(s, i + 1)

\* The variable a flag of runCmd is bound to, "" for a name not defined
FlagField(name) ==
    IF name \in {"partition", "p"} THEN "partition"
    ELSE IF name \in {"cpu", "c"} THEN "cpu"
    ELSE IF name \in {"memory", "m"} THEN "memory"
    ELSE IF name \in {"gpu", "g"} THEN "gpu"
    ELSE IF name \in {"name", "n"} THEN "name"
    ELSE IF name \in {"volume", "v"} THEN "volumes"
    ELSE IF name \in {"image", "i"} THEN "image"
    ELSE IF name \in {"help", "h"} THEN "help"
    ELSE ""

IntFlags == {"cpu", "memory", "gpu"}

\* runCmd.Parse(args) with the flags so far in req: flag.FlagSet.Parse takes
\* '-name=value' or '-name value' (one or two dashes) until the first
\* argument that is no flag.  runCmd is built with flag.ExitOnError: where
\* ok is FALSE the process has printed the error and exited.
RECURSIVE ParseFlags(_, _, _)
ParseFlags(args, req, help) ==
    LET done == [ok |-> TRUE, req |-> req, help |-> help]
        fail == [ok |-> FALSE, req |-> req, help |-> help]
    IN  IF Len(args) = 0 THEN done
        ELSE IF Len(args[1]) < 2 \/ ~HasPrefix(args[1], "-") THEN done
        ELSE IF args[1] = "--" THEN done
        ELSE LET nv    == IF HasPrefix(args[1], "--") THEN SubSeq(args[1], 3, Len(args[1]))
                          ELSE SubSeq(args[1], 2, Len(args[1]))
                 eq    == EqualsFrom(nv, 2)
                 name  == IF eq = 0 THEN nv ELSE SubSeq(nv, 1, eq - 1)
                 field == FlagField(name)
                 value == IF eq # 0 THEN SubSeq(nv, eq + 1, Len(nv))
                          ELSE IF Len(args) > 1 THEN args[2] ELSE ""
                 rest  == IF eq # 0 THEN Tail(args)
                          ELSE IF Len(args) > 1 THEN Tail(Tail(args)) ELSE <<>>
             IN  IF HasPrefix(nv, "-") \/ HasPrefix(nv, "=") THEN fail
                 ELSE IF field = "" THEN fail
                 ELSE IF field = "help"
                      THEN IF eq = 0 THEN ParseFlags(Tail(args), req, TRUE)
                           ELSE IF value \in {"true", "1", "t", "T", "TRUE", "True"}
                           THEN ParseFlags(Tail(args), req, TRUE)
                           ELSE IF value \in {"false", "0", "f", "F", "FALSE", "False"}
                           THEN ParseFlags(Tail(args), req, FALSE)
                           ELSE fail
                 ELSE IF eq = 0 /\ Len(args) = 1 THEN fail
                 ELSE IF field \in IntFlags
                      THEN IF ~Atoi(value).ok THEN fail
                           ELSE ParseFlags(rest, [req EXCEPT ![field] = Atoi(value).val], help)
                 ELSE ParseFlags(rest, [req EXCEPT ![field] = value], help)

\* The position of the first of args that does not start with "-", or 0
RECURSIVE ImagePos(_, _)
ImagePos(args, i) ==
    IF i > Len(args) THEN 0
    ELSE IF ~HasPrefix(args[i], "-") THEN i
    ELSE ImagePos(args, i + 1)

\* The values of the flags of run before any is parsed
RunDefaults ==
    [partition |-> "", cpu |-> 1, memory |-> 0, gpu |-> 0, image |-> "", volumes |-> "",
     name |-> ""]

\* runContainer up to the catalog load, on args = os.Args[2:]: the options
\* end and the image is taken at the first argument that does not start
\* with "-"; what is before it goes to runCmd.Parse.  why is "" for a
\* command line that leads on to the catalog load.
ParseRun(args) ==
    LET imagePos == ImagePos(args, 1)
        flagArgs == IF imagePos > 0 THEN SubSeq(args, 1, imagePos - 1) ELSE args
        imageArg == IF imagePos > 0 THEN args[imagePos] ELSE ""
        p        == ParseFlags(flagArgs, RunDefaults, FALSE)
    IN  IF Len(args) = 0 THEN [why |-> "usage", req |-> RunDefaults]
        ELSE IF ~p.ok THEN [why |-> "flags", req |-> p.req]
        ELSE IF p.help THEN [why |-> "help", req |-> p.req]
        ELSE [why |-> "",
              req |-> [p.req EXCEPT !.image = IF p.req.image = "" THEN imageArg
                                              ELSE p.req.image]]

\* Command lines of run in the documented form '-flag value ... IMAGE': the
\* examples of the help text and of the README
DocumentedRunLines ==
    {<<"-p", "gpu", "-g", "1", "-v", "my-data,shared-data", "-n", "my-gpu-container",
       "pytorch/pytorch">>,
     <<"-p", "gpu", "-c", "2", "-m", "4", "-g", "1", "-n", "my-container",
       "pytorch/pytorch">>}

\* Command lines of run: the documented ones, the requests above written
\* '-flag=value', and ones that runCmd.Parse refuses or answers with the
\* usage text
RunLines ==
    DocumentedRunLines
    \cup {<<"-p=x86", "-n=c1">>,
          <<"-p=x86", "-c=2", "-n=c1">>,
          <<"-p=x86", "-c=2", "-m=3", "-g=1", "-v= data,tmp", "-n=c1", "pytorch">>,
          <<"--partition=gpu_a", "--memory=4", "--gpu=1", "--volume=data", "--name=c1">>,
          <<"-p=gpu_a", "-c=0", "-n=c1", "-i=pytorch">>,
          <<"-c=1", "-m=3", "-n=c1">>,
          <<"-p=x86", "-c=3", "-n=c1">>,
          <<"-p=x86", "-m=5", "-n=c1">>,
          <<"-p=arm", "-m=3", "-n=c1">>,
          <<"-p=x86", "-c=two", "-n=c1">>,
          <<"-x=1", "ubuntu">>,
          <<"-h">>,
          <<>>}

\* The requests of the command lines that lead on to the catalog load
RunRequests == {ParseRun(args).req : args \in {a \in RunLines : ParseRun(a).why = ""}}

PartitionAnswers == {EOF, Line("x86")}
CpuAnswers       == {EOF, Line("1"), Line("one")}
ImageAnswers     == {EOF, Line("busybox")}
ContinueAnswers  == {EOF, Line("Yes"), Line("n")}

\* The environment of the volume checks: whether the cluster answers the
\* queries, and the answers to the prompts.
CheckEnvs(vols) ==
    [volGetOk : IF Len(vols) = 0 THEN {TRUE} ELSE BOOLEAN,
     answers  : [1..Len(vols) -> ContinueAnswers]]

\* The answers to the prompts a request leads to; a prompt that is not
\* reached has no answer.
PromptAnswers(op, req) ==
    [partition : IF req.partition = "" THEN PartitionAnswers ELSE {EOF},
     cpu       : IF op = "create" /\ req.cpu = 0 THEN CpuAnswers ELSE {EOF},
     image     : IF req.image = "" THEN ImageAnswers ELSE {EOF}]

VolumeNames    == {"data", "x86-default-pvc", "my-default-pvc-2"}
VolumeSizes    == {"10Gi"}
StorageClasses == {"x86-default-sc"}
AccessModes    == {"ReadWriteMany", "ReadWriteOnce"}
PodNames       == {"c1", "x86-default-pvc"}

\* How often run polls the pod's phase before it gives up
PollLimit == 10

-----------------------------------------------------------------------------
(* The CLI: one action per command *)

\* The record of an invocation: the command, the container or volume it
\* names, how the catalog refresh went ("skip" if the command loads no
\* catalog), what getPartitions returned, and the error it ended with.
Last(op, name, refresh, result, err) ==
    [op |-> op, name |-> name, refresh |-> refresh, result |-> result, err |-> err]

Idle == Last("idle", "", "skip", Nil, "")

Init ==
    /\ now = StartTime
    /\ tsFile = NoFile("")
    /\ payloadFile = NoFile(<<>>)
    /\ pvcs = {}
    /\ pods = {}
    /\ calls = <<>>
    /\ last = Idle
    /\ procs = [p \in Procs |-> [pc |-> "start"]]

\* The end of a command that loaded the catalog as g and left o
Finish(op, name, g, o) ==
    /\ tsFile' = g.ts
    /\ payloadFile' = g.pf
    /\ pvcs' = o.pvcs
    /\ pods' = o.pods
    /\ calls' = o.calls
    /\ last' = Last(op, name, g.refresh, g.result, o.err)
    /\ UNCHANGED <<now, procs>>

\* The end of a create or run that got as far as its flags: the record
\* keeps the request.
FinishRequest(op, req, g, o) ==
    /\ tsFile' = g.ts
    /\ payloadFile' = g.pf
    /\ pvcs' = o.pvcs
    /\ pods' = o.pods
    /\ calls' = o.calls
    /\ last' = [op |-> op, name |-> req.name, refresh |-> g.refresh,
                result |-> g.result, err |-> o.err, req |-> req]
    /\ UNCHANGED <<now, procs>>

\* The end of a create or run that got as far as the volume checks: the
\* record keeps what the checks met as well.
FinishChecked(op, req, k, g, o) ==
    /\ tsFile' = g.ts
    /\ payloadFile' = g.pf
    /\ pvcs' = o.pvcs
    /\ pods' = o.pods
    /\ calls' = o.calls
    /\ last' = [op |-> op, name |-> req.name, refresh |-> g.refresh,
                result |-> g.result, err |-> o.err, req |-> req, check |-> k]
    /\ UNCHANGED <<now, procs>>

\* The end of a command that loads no catalog
FinishCluster(op, name, o) ==
    /\ pvcs' = o.pvcs
    /\ pods' = o.pods
    /\ calls' = o.calls
    /\ last' = Last(op, name, "skip", Nil, o.err)
    /\ UNCHANGED <<now, tsFile, payloadFile, procs>>

\* hpcgame lspart: listPartitions(getPartitions())
ListPartitions ==
    /\ last.op = "idle"
    /\ \E e \in LoadEnvsAt(tsFile, now) :
          Finish("lspart", "", GetPartitions(tsFile, payloadFile, now, e),
                 Outcome(<<>>, pvcs, pods, ""))

\* The polls of run for the pod's phase: n of them
RECURSIVE Polls(_, _)
Polls(name, n) ==
    IF n = 0 THEN <<>> ELSE <<Call("get", "pod", name, NoDoc)>> \o Polls(name, n - 1)

\* partitions == nil
CatalogUnavailableNever(partitions) == FALSE

CatalogUnavailable(partitions) == partitions.nil

\* createContainer (op = "create") and runContainer (op = "run") from the
\* catalog load on, for the flags of one of requests
ContainerCmd(op, requests) ==
    /\ last.op = "idle"
    /\ \E e \in LoadEnvsAt(tsFile, now) :
       \E g \in {GetPartitions(tsFile, payloadFile, now, e)} :
          IF CatalogUnavailable(g.result)
          THEN Finish(op, "", g, Outcome(<<>>, pvcs, pods, "catalog"))
          ELSE \E req \in requests : \E in \in PromptAnswers(op, req) :
               \E v \in {Validate(op, g.result.list, req, in)} :
                  IF v.why # ""
                  THEN FinishRequest(op, req, g, Outcome(<<>>, pvcs, pods, v.why))
                  ELSE \E vols \in {ExtraVolumeNames(req.volumes)} :
                       \E k \in CheckEnvs(vols) :
                       \E chk \in {CheckVolumes(vols, 1, pvcs, k)} :
                          IF chk.cancelled
                          THEN FinishChecked(op, req, k, g,
                                   Outcome(chk.calls, pvcs, pods, "cancelled"))
                          ELSE \E d \in DeployEnvs(pvcs, v.partition.Name) :
                               \E n \in IF op = "run" /\ d.podOk THEN {1, PollLimit}
                                        ELSE {0} :
                               \E o \in {deployContainer(pvcs, pods, v.partition, req.name,
                                             v.cpu, v.memory, v.gpu, v.image, vols, d)} :
                                  FinishChecked(op, req, k, g,
                                      Outcome(chk.calls \o o.calls \o Polls(req.name, n),
                                              o.pvcs, o.pods, o.err))

\* hpcgame create: createCmd.Parse(os.Args[2:]) takes the flags in either
\* form
CreateContainer == ContainerCmd("create", Requests)

\* hpcgame run: a command line that runCmd.Parse refuses, or that asks for
\* the usage text, ends before the catalog is loaded.
RunContainer ==
    \/ ContainerCmd("run", RunRequests)
    \/ /\ last.op = "idle"
       /\ \E args \in RunLines : \E p \in {ParseRun(args)} :
             /\ p.why # ""
             /\ last' = [op |-> "run", name |-> "", refresh |-> "skip", result |-> Nil,
                         err |-> p.why, args |-> args]
       /\ calls' = <<>>
       /\ UNCHANGED <<now, tsFile, payloadFile, pvcs, pods, procs>>

\* deleteContainer (hpcgame delete, rm, kill, stop): 'kubectl delete pod'
DeleteContainer ==
    /\ last.op = "idle"
    /\ \E name \in PodNames : \E ok \in BOOLEAN :
          FinishCluster("rm", name,
              IF ok /\ name \in pods
              THEN Outcome(<<Call("delete", "pod", name, NoDoc)>>, pvcs, pods \ {name}, "")
              ELSE Outcome(<<Call("delete", "pod", name, NoDoc)>>, pvcs, pods, "delete"))

\* hpcgame volume ls
VolumeLs ==
    /\ last.op = "idle"
    /\ \E ok \in BOOLEAN : FinishCluster("volume ls", "", listVolumes(pvcs, pods, ok))

\* hpcgame volume create NAME SIZE STORAGE_CLASS [ACCESS_MODE]
VolumeCreate ==
    /\ last.op = "idle"
    /\ \E name \in VolumeNames : \E size \in VolumeSizes : \E sc \in StorageClasses :
       \E mode \in AccessModes : \E ok \in BOOLEAN :
          FinishCluster("volume create", name,
                        createVolume(pvcs, pods, name, size, sc, mode, ok))

\* hpcgame volume rm NAME
VolumeRm ==
    /\ last.op = "idle"
    /\ \E name \in VolumeNames : \E ok \in BOOLEAN :
          FinishCluster("volume rm", name, deleteVolume(pvcs, pods, name, ok))

\* The process exits: the record of the invocation goes with it.
Exit ==
    /\ last.op # "idle"
    /\ last' = Idle
    /\ calls' = <<>>
    /\ UNCHANGED <<now, tsFile, payloadFile, pvcs, pods, procs>>

-----------------------------------------------------------------------------
(* ensurePartitionDefaultVolume and deployContainer, called on their own *)

\* How many kubectl invocations a caller of ensurePartitionDefaultVolume
\* may have behind it when it calls again.
MaxCalls == 3

\* The record of one call: the function, the container or partition it
\* names, its arguments, the environment it met and the error it returned.
Called(op, name, args, env, err) ==
    [op |-> op, name |-> name, refresh |-> "skip", result |-> Nil, err |-> err,
     args |-> args, env |-> env]

PartitionNames == {PartX86.Name, PartGpu.Name}

\* The outcomes of the query and of the creation of one
\* ensurePartitionDefaultVolume call
EnsureEnvs == [getOk : BOOLEAN, applyOk : BOOLEAN]

\* The arguments of deployContainer, free of what create and run let through
DeployArgs ==
    [partition : {PartX86, PartGpu}, name : {"c1"}, cpu : {1, 4}, memory : {2, 8},
     gpu : {0, 2}, image : {"ubuntu"},
     extraVolumes : {<<>>, <<"data", "tmp">>, <<"data", "data">>}]

\* One call of ensurePartitionDefaultVolume; a caller may call it again.
Ensure ==
    /\ last.op \in {"idle", "ensure"}
    /\ Len(calls) < MaxCalls
    /\ \E partition \in PartitionNames : \E k \in EnsureEnvs :
       \E o \in {ensurePartitionDefaultVolume(pvcs, pods, partition, k)} :
          /\ pvcs' = o.pvcs
          /\ pods' = o.pods
          /\ calls' = calls \o o.calls
          /\ last' = Called("ensure", partition, partition, k, o.err)
    /\ UNCHANGED <<now, tsFile, payloadFile, procs>>

\* One call of deployContainer
Deploy ==
    /\ last.op = "idle"
    /\ \E a \in DeployArgs : \E k \in DeployEnvs(pvcs, a.partition.Name) :
       \E o \in {deployContainer(pvcs, pods, a.partition, a.name, a.cpu, a.memory,
                                  a.gpu, a.image, a.extraVolumes, k)} :
          /\ pvcs' = o.pvcs
          /\ pods' = o.pods
          /\ calls' = o.calls
          /\ last' = Called("deploy", a.name, a, k, o.err)
    /\ UNCHANGED <<now, tsFile, payloadFile, procs>>

-----------------------------------------------------------------------------
(* The environment of the cache *)

\* The moments the clock passes through: it advances by a second or by one
\* second less than the refresh interval, MaxTicks times at most.
Times ==
    UNION {{StartTime + a + b * (TTL - 1) : b \in 0..(MaxTicks - a)} : a \in 0..MaxTicks}

Tick ==
    /\ last.op = "idle"
    /\ \E t \in Times : t > now /\ now' = t
    /\ UNCHANGED <<tsFile, payloadFile, pvcs, pods, calls, last, procs>>

\* The user removes a file of the cache directory between two invocations
\* (getPartitions provides for either file being absent).
ClearCacheFile ==
    /\ last.op = "idle"
    /\ \/ tsFile.exists /\ tsFile' = NoFile("") /\ UNCHANGED payloadFile
       \/ payloadFile.exists /\ payloadFile' = NoFile(<<>>) /\ UNCHANGED tsFile
    /\ UNCHANGED <<now, pvcs, pods, calls, last, procs>>

-----------------------------------------------------------------------------
(* Two invocations of getPartitions side by side *)

\* The bodies the remote authority serves while the invocations run
RaceBodies == {Encode(<<PartX86>>), Encode(<<PartX86, PartGpu>>)}

\* A write of chunk through a file descriptor that stands at offset off: a
\* file that has been cut shorter than off in the meantime is filled up to
\* off with zero bytes, which are no JSON.
WriteAt(data, off, chunk) ==
    LET padded == IF Len(data) < off
                  THEN data \o [i \in 1..(off - Len(data)) |-> Junk]
                  ELSE data
    IN  SubSeq(padded, 1, off) \o chunk
        \o SubSeq(padded, off + Len(chunk) + 1, Len(padded))

\* The position of an invocation of getPartitions and its local variables:
\* the body of its response, how much of it is written, the file contents
\* it read and what it returns
Loader(pc, body, off, seen, result) ==
    [pc |-> pc, body |-> body, off |-> off, seen |-> seen, result |-> result]

\* lastUpdateFile is created if it is missing and read; needsUpdate decides
\* between the refresh and the read of the payload.
LoadStart(p) ==
    /\ procs[p].pc = "start"
    /\ \E ts0 \in {IF tsFile.exists THEN tsFile ELSE File("0")} :
          /\ tsFile' = ts0
          /\ procs' = [procs EXCEPT ![p] =
                Loader(IF NeedsUpdate(ts0, now) THEN "fetch" ELSE "read",
                       <<>>, 0, NoFile(<<>>), Nil)]
    /\ UNCHANGED <<now, payloadFile, pvcs, pods, calls, last>>

\* http.Get: an error or a status other than 200 ends the invocation, a 200
\* gives a response whose body is still to be read.
LoadFetch(p) ==
    /\ procs[p].pc = "fetch"
    /\ \/ procs' = [procs EXCEPT ![p].pc = "done"]
       \/ \E b \in RaceBodies : procs' = [procs EXCEPT ![p].pc = "create", ![p].body = b]
    /\ UNCHANGED <<now, tsFile, payloadFile, pvcs, pods, calls, last>>

\* os.Create(partitionFile): the file is cut to length 0 and opened at
\* offset 0.
LoadCreate(p) ==
    /\ procs[p].pc = "create"
    /\ payloadFile' = File(<<>>)
    /\ procs' = [procs EXCEPT ![p].pc = "copy", ![p].off = 0]
    /\ UNCHANGED <<now, tsFile, pvcs, pods, calls, last>>

\* io.Copy(file, resp.Body): one write of the next n tokens of the body, as
\* they arrive
LoadCopy(p) ==
    /\ procs[p].pc = "copy"
    /\ procs[p].off < Len(procs[p].body)
    /\ \E n \in 1..(Len(procs[p].body) - procs[p].off) :
          /\ payloadFile' =
                File(WriteAt(payloadFile.data, procs[p].off,
                             SubSeq(procs[p].body, procs[p].off + 1, procs[p].off + n)))
          /\ procs' = [procs EXCEPT ![p].off = procs[p].off + n]
    /\ UNCHANGED <<now, tsFile, pvcs, pods, calls, last>>

\* os.WriteFile(lastUpdateFile, now) once the body is copied
LoadStamp(p) ==
    /\ procs[p].pc = "copy"
    /\ procs[p].off = Len(procs[p].body)
    /\ tsFile' = File(Itoa(now))
    /\ procs' = [procs EXCEPT ![p].pc = "read"]
    /\ UNCHANGED <<now, payloadFile, pvcs, pods, calls, last>>

\* os.ReadFile(partitionFile) and json.Unmarshal
LoadRead(p) ==
    /\ procs[p].pc = "read"
    /\ procs' = [procs EXCEPT ![p].pc = "done", ![p].seen = payloadFile,
                              ![p].result = ReadPartitions(payloadFile)]
    /\ UNCHANGED <<now, tsFile, payloadFile, pvcs, pods, calls, last>>

LoadRaceNext ==
    \E p \in Procs :
        \/ LoadStart(p)
        \/ LoadFetch(p)
        \/ LoadCreate(p)
        \/ LoadCopy(p)
        \/ LoadStamp(p)
        \/ LoadRead(p)

\* The file system does not fail here: what goes wrong comes from the order
\* of the steps alone.
SpecLoadRace == Init /\ [][LoadRaceNext]_vars

-----------------------------------------------------------------------------
(* Calls of ensurePartitionDefaultVolume side by side *)

\* 'kubectl apply' of a claim that is never stored
ApplyClaimLost(cl, name, accepted) == [pvcs |-> cl, err |-> IF accepted THEN "" ELSE "apply"]

\* 'kubectl apply' of the claim called name on the claims cl: the cluster
\* keeps one object of a name.  A claim that is absent is created, a claim
\* that is there is left as it is; a cluster that does not accept (it
\* fails, or it rejects the duplicate) makes kubectl return an error.
ApplyClaim(cl, name, accepted) ==
    [pvcs |-> IF accepted THEN cl \cup {name} ELSE cl,
     err  |-> IF accepted THEN "" ELSE "apply"]

\* The position of a call of ensurePartitionDefaultVolume: its partition,
\* what its query said, whether it has submitted a creation, and the error
\* it returns
Ensurer(pc, partition, found, applied, err) ==
    [pc |-> pc, partition |-> partition, found |-> found, applied |-> applied,
     err |-> err]

\* The call is made for a partition.
EnsureStart(p) ==
    /\ procs[p].pc = "start"
    /\ \E partition \in PartitionNames :
          procs' = [procs EXCEPT ![p] = Ensurer("query", partition, FALSE, FALSE, "")]
    /\ UNCHANGED <<now, tsFile, payloadFile, pvcs, pods, calls, last>>

\* 'kubectl get pvc' runs: nil only if the claim is there and the cluster
\* answers.
EnsureQuery(p) ==
    /\ procs[p].pc = "query"
    /\ \E answered \in BOOLEAN :
          procs' = [procs EXCEPT ![p].pc = "queried",
                ![p].found = answered /\ DefaultVolumeName(procs[p].partition) \in pvcs]
    /\ UNCHANGED <<now, tsFile, payloadFile, pvcs, pods, calls, last>>

\* The call returns nil on a query that succeeded, and goes on to build the
\* claim otherwise.
EnsureBranch(p) ==
    /\ procs[p].pc = "queried"
    /\ procs' = [procs EXCEPT ![p].pc = IF procs[p].found THEN "done" ELSE "apply"]
    /\ UNCHANGED <<now, tsFile, payloadFile, pvcs, pods, calls, last>>

\* 'kubectl apply' of the claim; the call returns its outcome.
EnsureApply(p) ==
    /\ procs[p].pc = "apply"
    /\ \E accepted \in BOOLEAN :
       \E o \in {ApplyClaim(pvcs, DefaultVolumeName(procs[p].partition), accepted)} :
          /\ pvcs' = o.pvcs
          /\ procs' = [procs EXCEPT ![p].pc = "done", ![p].applied = TRUE,
                                    ![p].err = o.err]
    /\ UNCHANGED <<now, tsFile, payloadFile, pods, calls, last>>

EnsureProc(p) == EnsureStart(p) \/ EnsureQuery(p) \/ EnsureBranch(p) \/ EnsureApply(p)

EnsureRaceNext == \E p \in Procs : EnsureProc(p)

\* Each call runs in a process of its own, which the scheduler does not
\* starve, and kubectl returns.
SpecEnsureRace ==
    Init /\ [][EnsureRaceNext]_vars /\ \A p \in Procs : WF_vars(EnsureProc(p))

-----------------------------------------------------------------------------
(* Specifications *)

\* The commands of the CLI, at one moment of time
Next ==
    \/ ListPartitions
    \/ CreateContainer
    \/ RunContainer
    \/ DeleteContainer
    \/ VolumeLs
    \/ VolumeCreate
    \/ VolumeRm
    \/ Exit

Spec == Init /\ [][Next]_vars

\* The catalog cache over time
CacheNext == ListPartitions \/ Tick \/ ClearCacheFile \/ Exit

SpecCache == Init /\ [][CacheNext]_vars

\* The provisioning functions on their own
ProvisionNext == Ensure \/ Deploy \/ Exit

SpecProvision == Init /\ [][ProvisionNext]_vars

-----------------------------------------------------------------------------
(* Properties *)

\* A refresh that was attempted and failed, by the step that failed
FailedRefresh == {"transport", "status", "create", "copy", "tsopen", "tswrite"}

\* The timestamp file holds an integer
HasTimestamp(ts) == ts.exists /\ Atoi(ts.data).ok

\* C1: deleteVolume returns the reserved-name error and issues no kubectl
\* call for every name that contains '-default-pvc', whether or not a claim
\* of that name exists.
C1_DeleteRejectsReserved ==
    (last.op = "volume rm" /\ Contains(last.name, "-default-pvc"))
        => (last.err = "reserved" /\ calls = <<>>)

\* C1 witness: 'volume rm' of a default claim that exists was refused.
C1_Witness ==
    /\ last.op = "volume rm"
    /\ last.name = "x86-default-pvc"
    /\ last.name \in pvcs
    /\ last.err = "reserved"

\* C2: createVolume returns the reserved-name error and issues no kubectl
\* call for every name that contains '-default-pvc', whatever the size, the
\* storage class and the access mode.
C2_CreateRejectsReserved ==
    (last.op = "volume create" /\ Contains(last.name, "-default-pvc"))
        => (last.err = "reserved" /\ calls = <<>>)

\* C2 witness: 'volume create my-default-pvc-2 ...' was refused.
C2_Witness ==
    /\ last.op = "volume create"
    /\ last.name = "my-default-pvc-2"
    /\ last.err = "reserved"
    /\ calls = <<>>

\* C3: no command ever issues 'kubectl delete pvc' for a name that contains
\* '-default-pvc', and a claim of such a name that exists stays.
C3_DefaultClaimsNeverDeleted ==
    [][/\ \A i \in 1..Len(calls') :
            (calls'[i].verb = "delete" /\ calls'[i].kind = "pvc")
                => ~Contains(calls'[i].name, "-default-pvc")
       /\ \A n \in pvcs : Contains(n, "-default-pvc") => n \in pvcs']_vars

\* C3 witness: with the default claim of x86 in place, 'rm x86-default-pvc'
\* issued its deletion (of a pod) and the claim is still there.
C3_Witness ==
    /\ last.op = "rm"
    /\ last.name = "x86-default-pvc"
    /\ Len(calls) = 1
    /\ calls[1].verb = "delete"
    /\ "x86-default-pvc" \in pvcs

\* C4 (as claimed): when the cache is stale, the refresh fails on a
\* transport error or a status other than 200 and a payload is persisted,
\* load returns the partition list decoded from that payload.
C4_StaleFallback ==
    [][(/\ last'.refresh \in {"transport", "status"}
        /\ payloadFile.exists
        /\ Unmarshal(payloadFile.data).ok)
          => last'.result = Some(Unmarshal(payloadFile.data).list)]_vars

\* C5: a refresh that fails on a transport error or a status other than 200
\* leaves an existing payload file and timestamp file as they were.
C5_FailedFetchKeepsCache ==
    [][(/\ last'.refresh \in {"transport", "status"}
        /\ payloadFile.exists
        /\ tsFile.exists)
          => (payloadFile' = payloadFile /\ tsFile' = tsFile)]_vars

\* C5 witness: a refresh of a cache written at StartTime, found stale,
\* failed on the response status.
C5_Witness ==
    /\ last.refresh = "status"
    /\ payloadFile.exists
    /\ tsFile = File(Itoa(StartTime))

\* C6 (as claimed): a refresh that fails while the body is copied leaves
\* the payload file with its complete previous contents.
C6_NoTornPayload ==
    [][(last'.refresh = "copy" /\ payloadFile.exists)
          => payloadFile' = payloadFile]_vars

C8_AbsentPayloadRefreshes ==
    [][(last'.refresh # "skip" /\ ~payloadFile.exists) => last'.refresh # "none"]_vars

\* C9: when the timestamp file is missing or does not parse as an integer,
\* load attempts a refresh.
C9_BadTimestampRefreshes ==
    [][(last'.refresh # "skip" /\ ~HasTimestamp(tsFile)) => last'.refresh # "none"]_vars

\* C9 witness: a refresh was attempted over an empty timestamp file (which
\* a failed fetch leaves as it was).
C9_Witness ==
    /\ last.refresh = "transport"
    /\ tsFile = File("")

\* C10: when the refresh fails and no payload is persisted, load returns
\* nil, and create and run stop there: they report the catalog failure and
\* issue no kubectl call.
C10_NoCatalogNoCalls ==
    [][(last'.refresh \in FailedRefresh /\ ~payloadFile.exists)
          => /\ last'.result.nil
             /\ last'.op \in {"create", "run"}
                   => /\ last'.err = "catalog"
                      /\ calls' = <<>>
                      /\ pvcs' = pvcs
                      /\ pods' = pods]_vars

\* C10 witness: create stopped on a failed first fetch.
C10_Witness ==
    /\ last.op = "create"
    /\ last.refresh = "transport"
    /\ ~payloadFile.exists
    /\ last.result.nil
    /\ calls = <<>>

\* C11 (as claimed): after a load that attempted a refresh, either the
\* payload file is as it was and the caller gets no catalog, or the refresh
\* went through and the caller gets the catalog the payload file now holds.
C11_RefreshAtomic ==
    [][last'.refresh \notin {"skip", "none"} =>
          \/ payloadFile' = payloadFile /\ last'.result.nil
          \/ /\ last'.refresh = "ok"
             /\ ~last'.result.nil
             /\ last'.result = ReadPartitions(payloadFile')]_vars

\* C20 (as claimed): every partition of a list that load returns has
\* CPULimit >= 1 and MemoryLimit >= 1, and has GPUTag and GPUName both set or
\* both empty.
C20_PartitionInvariants ==
    ~last.result.nil =>
        \A i \in 1..Len(last.result.list) :
            LET p == last.result.list[i]
            IN  /\ p.CPULimit >= 1
                /\ p.MemoryLimit >= 1
                /\ (p.GPUTag = "") <=> (p.GPUName = "")

\* A kubectl invocation that submits a claim, and one that submits a pod
IsPvcApply(c) == c.verb = "apply" /\ c.kind = "pvc"
IsPodApply(c) == c.verb = "apply" /\ c.kind = "pod"

\* The manifest that the last deployContainer call submitted
SubmittedPod == SelectSeq(calls, IsPodApply)[1].doc

C13_PresentClaimNoOp ==
    [][last'.op = "ensure" =>
          LET name == DefaultVolumeName(last'.name)
              new  == SubSeq(calls', Len(calls) + 1, Len(calls'))
          IN  /\ name \in pvcs => (pvcs' = pvcs /\ last'.err = "")
              /\ Len(SelectSeq(new, IsPvcApply)) > 0 => name \notin pvcs]_vars

\* C14: the manifest deployContainer submits has CPU requests and limits of
\* cpu * 1000 millicores and memory requests and limits of the given number
\* of GiB, with or without a GPU.
C14_RequestsEqualLimits ==
    last.op = "deploy" =>
        /\ Len(SelectSeq(calls, IsPodApply)) = 1
        /\ SubmittedPod.requests.cpu = Itoa(last.args.cpu * 1000) \o "m"
        /\ SubmittedPod.limits.cpu = SubmittedPod.requests.cpu
        /\ SubmittedPod.requests.memory = Itoa(last.args.memory) \o "Gi"
        /\ SubmittedPod.limits.memory = SubmittedPod.requests.memory

\* C14 witness: cpu = 4 and memory = 8 without a GPU were submitted as
\* 4000m and 8Gi.
C14_Witness ==
    /\ last.op = "deploy"
    /\ last.args.cpu = 4
    /\ last.args.gpu = 0
    /\ SubmittedPod.requests.cpu = "4000m"
    /\ SubmittedPod.limits.memory = "8Gi"

\* C15: the manifest has the entry '<GPUTag>: <gpu>' among the requests and
\* among the limits if gpu > 0, and no GPU entry in either if gpu = 0.
C15_GpuEntryIffRequested ==
    last.op = "deploy" =>
        /\ SubmittedPod.requests.gpu = SubmittedPod.limits.gpu
        /\ last.args.gpu > 0 =>
              SubmittedPod.limits.gpu
                  = last.args.partition.GPUTag \o ": " \o Itoa(last.args.gpu)
        /\ last.args.gpu = 0 => SubmittedPod.limits.gpu = ""

\* C15 witness: gpu = 2 on the partition tagged nvidia.com/gpu
C15_Witness ==
    /\ last.op = "deploy"
    /\ last.args.gpu = 2
    /\ SubmittedPod.requests.gpu = "nvidia.com/gpu: 2"
    /\ SubmittedPod.limits.gpu = "nvidia.com/gpu: 2"

HasRequest == "req" \in DOMAIN last

\* The catalog entry a manifest selects, in the list the invocation loaded
SelectedPartition(doc) == FindPartition(last.result.list, doc.nodeSelector)

\* C16 (as claimed): create and run submit no manifest with a GPU entry for
\* a partition whose GPUTag is empty; a request for GPUs on such a partition
\* is rejected with nothing submitted.
C16_NoGpuWithoutTag ==
    /\ \A i \in 1..Len(calls) :
          (IsPodApply(calls[i]) /\ SelectedPartition(calls[i].doc).p.GPUTag = "")
              => (calls[i].doc.requests.gpu = "" /\ calls[i].doc.limits.gpu = "")
    /\ (/\ HasRequest
        /\ last.req.gpu > 0
        /\ FindPartition(last.result.list, last.req.partition).found
        /\ FindPartition(last.result.list, last.req.partition).p.GPUTag = "")
          => calls = <<>>

\* C18: every manifest create and run submit selects a partition of the
\* loaded catalog, the one the request names, with 0 < cpu <= CPULimit and
\* 0 < memory <= MemoryLimit of that partition; a request that names no
\* partition of the catalog is rejected with nothing submitted.
C18_SubmittedWithinLimits ==
    /\ \A i \in 1..Len(calls) :
          IsPodApply(calls[i]) =>
              LET doc == calls[i].doc
                  f   == SelectedPartition(doc)
              IN  /\ HasRequest
                  /\ f.found
                  /\ last.req.partition # "" => doc.nodeSelector = last.req.partition
                  /\ \E c \in 1..f.p.CPULimit :
                        /\ doc.requests.cpu = Itoa(c * 1000) \o "m"
                        /\ last.req.cpu # 0 => c = last.req.cpu
                  /\ \E m \in 1..f.p.MemoryLimit :
                        /\ doc.requests.memory = Itoa(m) \o "Gi"
                        /\ last.req.memory # 0 => m = last.req.memory
    /\ (/\ HasRequest
        /\ last.req.partition # ""
        /\ ~FindPartition(last.result.list, last.req.partition).found)
          => (last.err = "partition" /\ calls = <<>>)

\* C18 witness: a request at both limits of its partition was submitted.
C18_Witness ==
    /\ HasRequest
    /\ last.err = ""
    /\ last.req.cpu = PartX86.CPULimit
    /\ last.req.memory = PartX86.MemoryLimit
    /\ SubmittedPod.nodeSelector = "x86"
    /\ SubmittedPod.limits.cpu = "2000m"
    /\ SubmittedPod.limits.memory = "3Gi"

\* C19: without -m the memory size is cpu * 2, and that size is checked
\* against MemoryLimit: on {CPULimit 16, MemoryLimit 64} cpu 4 passes with
\* memory 8; what is submitted without -m has memory = cpu * 2 within the
\* limit, and a request whose cpu * 2 exceeds the limit is rejected with
\* nothing submitted.
C19_DefaultMemoryChecked ==
    /\ LET big == [PartX86 EXCEPT !.CPULimit = 16, !.MemoryLimit = 64]
           v   == Validate("run", <<big>>, Request("x86", 4, 0, 0, "", ""),
                           [partition |-> EOF, cpu |-> EOF, image |-> EOF])
       IN  v.why = "" /\ v.cpu = 4 /\ v.memory = 8
    /\ (HasRequest /\ last.req.memory = 0) =>
          /\ \A i \in 1..Len(calls) :
                IsPodApply(calls[i]) =>
                    \E c \in 1..SelectedPartition(calls[i].doc).p.CPULimit :
                        /\ calls[i].doc.requests.cpu = Itoa(c * 1000) \o "m"
                        /\ calls[i].doc.requests.memory = Itoa(c * 2) \o "Gi"
                        /\ c * 2 <= SelectedPartition(calls[i].doc).p.MemoryLimit
          /\ LET f == FindPartition(last.result.list, last.req.partition)
             IN  (/\ f.found
                  /\ last.req.cpu \in 1..f.p.CPULimit
                  /\ last.req.cpu * 2 > f.p.MemoryLimit)
                    => (last.err = "memory" /\ calls = <<>>)

\* C19 witness: cpu 1 without -m was submitted with 2Gi.
C19_Witness ==
    /\ HasRequest
    /\ last.req.cpu = 1
    /\ last.req.memory = 0
    /\ last.err = ""
    /\ SubmittedPod.requests.cpu = "1000m"
    /\ SubmittedPod.requests.memory = "2Gi"

\* C21 (as claimed): a run command line in the documented form, options as
\* '-flag value' and then the image, is parsed with the values given: no
\* such command line ends in the flag error or in the usage text, before
\* the catalog is loaded.
C21_DocumentedRunParses ==
    (last.op = "run" /\ last.err \in {"flags", "usage", "help"})
        => last.args \notin DocumentedRunLines

\* C22: the default claim of partition P is named P with every '_' turned
\* into '-' and '-default-pvc' appended, and one deployContainer call for P
\* uses that name in its query, in the claim it creates and in the claim of
\* the manifest's default mount.
C22_OneDefaultName ==
    last.op = "deploy" =>
        LET name == ReplaceAll(last.args.partition.Name, "_", "-") \o "-default-pvc"
        IN  /\ \A i \in 1..Len(calls) :
                  calls[i].kind = "pvc" =>
                      /\ calls[i].name = name
                      /\ calls[i].verb = "apply" => calls[i].doc.name = name
            /\ calls[1].verb = "get" /\ calls[1].kind = "pvc"
            /\ SubmittedPod.volumes[1].claimName = name
            /\ \A i \in 2..Len(SubmittedPod.volumes) :
                  SubmittedPod.volumes[i].name # SubmittedPod.volumes[1].name

\* C22 witness: on gpu_a the query, the creation and the manifest all name
\* gpu-a-default-pvc.
C22_Witness ==
    /\ last.op = "deploy"
    /\ last.args.partition.Name = "gpu_a"
    /\ Len(calls) = 3
    /\ calls[1].name = "gpu-a-default-pvc"
    /\ IsPvcApply(calls[2])
    /\ calls[2].doc.name = "gpu-a-default-pvc"
    /\ SubmittedPod.volumes[1].claimName = "gpu-a-default-pvc"

\* C23: every claim ensurePartitionDefaultVolume submits for partition P
\* asks for 200Gi, ReadWriteMany and the storage class P with every '_'
\* turned into '-' and '-default-sc' appended.
C23_DefaultClaimRequest ==
    [][last'.op \in {"ensure", "deploy"} =>
          LET P   == IF last'.op = "ensure" THEN last'.name ELSE last'.args.partition.Name
              new == IF last'.op = "ensure"
                     THEN SubSeq(calls', Len(calls) + 1, Len(calls'))
                     ELSE calls'
          IN  \A i \in 1..Len(new) :
                  IsPvcApply(new[i]) =>
                      /\ new[i].doc.kind = "PersistentVolumeClaim"
                      /\ new[i].doc.storage = "200Gi"
                      /\ new[i].doc.accessModes = <<"ReadWriteMany">>
                      /\ new[i].doc.storageClassName
                            = ReplaceAll(P, "_", "-") \o "-default-sc"]_vars

\* C23 witness: the claim created for gpu_a asks for the class
\* gpu-a-default-sc.
C23_Witness ==
    /\ last.op = "ensure"
    /\ last.name = "gpu_a"
    /\ Len(calls) = 2
    /\ IsPvcApply(calls[2])
    /\ calls[2].doc.storageClassName = "gpu-a-default-sc"
    /\ calls[2].doc.storage = "200Gi"
    /\ "gpu-a-default-pvc" \in pvcs

\* A creation of a default claim that failed: it was submitted and the
\* claim is not there
FailedEnsure(c) == IsPvcApply(c) /\ c.name \notin pvcs

Validated(doc) ==
    /\ ~last.result.nil
    /\ SelectedPartition(doc).found
    /\ \E c \in 1..SelectedPartition(doc).p.CPULimit :
          doc.limits.cpu = Itoa(c * 1000) \o "m"
    /\ \E m \in 1..SelectedPartition(doc).p.MemoryLimit :
          doc.limits.memory = Itoa(m) \o "Gi"

\* C25: create and run write to the cluster only with a catalog loaded, the
\* partition resolved in it and the CPU count and memory size within its
\* limits; the default claim is queried before it is created, and queried
\* and created before the workload is submitted.
C25_WritesAfterValidation ==
    last.op \in {"create", "run"} =>
        \A i \in 1..Len(calls) :
            calls[i].verb = "apply" =>
                /\ HasRequest
                /\ Len(SelectSeq(calls, IsPodApply)) = 1
                /\ Validated(SubmittedPod)
                /\ IsPvcApply(calls[i]) =>
                      /\ i > 1
                      /\ calls[i - 1] = Call("get", "pvc", calls[i].name, NoDoc)
                      /\ calls[i].name = SubmittedPod.volumes[1].claimName
                      /\ \E j \in (i + 1)..Len(calls) : IsPodApply(calls[j])
                /\ IsPodApply(calls[i]) =>
                      /\ \E j \in 1..(i - 1) :
                            calls[j] = Call("get", "pvc",
                                            calls[i].doc.volumes[1].claimName, NoDoc)
                      /\ \A j \in (i + 1)..Len(calls) :
                            calls[j] = Call("get", "pod", calls[i].name, NoDoc)

\* C25 witness: a run that queried the default claim, created it, submitted
\* the pod and then polled it.
C25_Witness ==
    /\ last.op = "run"
    /\ last.err = ""
    /\ last.refresh = "ok"
    /\ Len(calls) = 4
    /\ <<calls[1].verb, calls[2].verb, calls[3].verb, calls[4].verb>>
          = <<"get", "apply", "apply", "get">>
    /\ <<calls[1].kind, calls[2].kind, calls[3].kind, calls[4].kind>>
          = <<"pvc", "pvc", "pod", "pod">>

\* A query for a default claim
IsDefaultGet(c) == c.verb = "get" /\ c.kind = "pvc" /\ Contains(c.name, "-default-pvc")

\* C28: nothing is tried twice.  A load whose refresh failed returns nil,
\* with no second fetch behind it; volume create and volume rm issue at most
\* one kubectl call; a create or run issues at most one query and at most
\* one creation of the default claim, and submits at most one pod.
C28_NoRetries ==
    /\ last.refresh \in FailedRefresh => last.result.nil
    /\ last.op \in {"volume create", "volume rm"} => Len(calls) <= 1
    /\ HasRequest =>
          /\ Len(SelectSeq(calls, IsDefaultGet)) <= 1
          /\ Len(SelectSeq(calls, IsPvcApply)) <= 1
          /\ Len(SelectSeq(calls, IsPodApply)) <= 1

\* C28 witness: a volume create that kubectl refused, after its one call.
C28_Witness ==
    /\ last.op = "volume create"
    /\ last.err = "apply"
    /\ Len(calls) = 1
    /\ last.name \notin pvcs

\* C30 (as claimed): when the query for an extra volume fails, create and
\* run submit the workload only if the answer to the prompt is y or yes;
\* any other answer, and no answer at all, cancels with nothing submitted.
C30_OnlyYesContinues ==
    []["check" \in DOMAIN last' =>
          LET vols == ExtraVolumeNames(last'.req.volumes)
              k    == last'.check
          IN  \A i \in 1..Len(vols) :
                  (/\ ~(k.volGetOk /\ vols[i] \in pvcs)
                   /\ ~(k.answers[i].read /\ ToLower(k.answers[i].text) \in {"y", "yes"}))
                      => /\ last'.err = "cancelled"
                         /\ Len(SelectSeq(calls', IsPodApply)) = 0
                         /\ pods' = pods]_vars

\* C29 (as claimed): load sets the timestamp to the time of a refresh only
\* if the payload it has just persisted decodes as a partition list, so
\* that a load served from a cache it refreshed and finds fresh returns a
\* list.
C29_StampOnlyDecodable ==
    [][/\ (last'.refresh \notin {"skip", "none"} /\ tsFile' = File(Itoa(now)))
             => ~ReadPartitions(payloadFile').nil
       /\ (/\ last'.refresh = "none"
           /\ payloadFile.exists
           /\ HasTimestamp(tsFile)
           /\ Atoi(tsFile.data).val > 0)
             => ~last'.result.nil]_vars

\* Every invocation of the race has returned
AllDone == \A p \in Procs : procs[p].pc = "done"

\* C26 (as claimed): with two loads side by side on one cache directory,
\* what a load reads from the payload file is the complete body of one
\* fetch, and the file they leave behind is the complete body of one fetch.
C26_NoPartialPayload ==
    /\ \A p \in Procs :
          (procs[p].pc = "done" /\ procs[p].seen.exists)
              => procs[p].seen.data \in RaceBodies
    /\ (AllDone /\ payloadFile.exists) => payloadFile.data \in RaceBodies

\* C27: calls of ensurePartitionDefaultVolume side by side all return, in
\* whatever order their queries and creations fall.  No step takes a claim
\* away, the cluster holds default claims only, and as soon as a call for a
\* partition has returned nil the default claim of the partition is there,
\* once, also when several of the calls submitted a creation.
C27_RacingEnsuresSettle ==
    /\ [](\A p \in Procs :
            (procs[p].pc = "done" /\ procs[p].err = "")
                => Cardinality({n \in pvcs : n = DefaultVolumeName(procs[p].partition)}) = 1)
    /\ [](pvcs \subseteq {DefaultVolumeName(P) : P \in PartitionNames})
    /\ [][pvcs \subseteq pvcs']_vars
    /\ <>[]AllDone

\* C27 witness: two calls for one partition both found the claim absent,
\* both submitted a creation and both returned nil, and the claim is there.
C27_Witness ==
    /\ AllDone
    /\ \A p \in Procs :
          /\ procs[p].partition = procs[1].partition
          /\ procs[p].applied
          /\ procs[p].err = ""
    /\ DefaultVolumeName(procs[1].partition) \in pvcs
====
